---- MODULE Spec2Model ----
(***************************************************************************)
(* Model of the asynchronous content-generation pipeline of                *)
(* AI-contentForge: the AIService (server/services/aiService.js), the      *)
(* Content schema (models/Content.js), the /api/ai and /api/content routes *)
(* and CompetitiveResearchService.performWebResearch.                      *)
(*                                                                         *)
(* Every `await` of a handler is a point where other handlers may run, so  *)
(* the background task is modelled as one action per awaited operation.    *)
(***************************************************************************)
EXTENDS Integers, Sequences, FiniteSets, TLC

VARIABLES store, nextId, task, usage, apiKey, resp, research, serpApiKey,
          outlineRes, page, gen, trail, req, wizard, secReq

vars ==
  <<store, nextId, task, usage, apiKey, resp, research, serpApiKey,
    outlineRes, page, gen, trail, req, wizard, secReq>>

(***************************************************************************)
(* Bounds                                                                  *)
(***************************************************************************)
MaxRecords == 2
MaxResults == 2
MaxPos == 2
MaxLines == 3
MaxSections == 2
MaxViews == 2

Ids == 1..MaxRecords
Users == {"u1", "u2"}

(***************************************************************************)
(* Program constants                                                       *)
(***************************************************************************)
WordsPerMinute == 200
TopN == 10
MockCount == 5
MinSentenceLength == 10
MaxSnippetHeadings == 3
SnippetFactor == 10
MinSectionWords == 100
MaxSectionWords == 2000
MaxAttempts == 30

(***************************************************************************)
(* Texts are sequences of characters; " " stands for any whitespace.       *)
(***************************************************************************)
ProviderTexts == { <<>>, <<"a", " ", "b">> }
PutTexts == { <<>>, <<"c", " ", " ", "d", " ", "e">> }
GenTimes == {1}
ErrorMessage == "provider error"

(***************************************************************************)
(* Content schema (models/Content.js)                                      *)
(***************************************************************************)
StatusEnum == {"generating", "draft", "completed", "published"}

\* the paths of the `generation` sub-document declared by the schema
GenerationPaths == {"prompt", "model", "provider", "generationTime", "tokensUsed"}

\* content.split(/\s+/).filter(word => word.length > 0).length
WordCount(s) ==
  Cardinality({ i \in 1..Len(s) : s[i] # " " /\ (i = 1 \/ s[i-1] = " ") })

\* Math.ceil(wordCount / 200)
ReadingTime(wc) == (wc + WordsPerMinute - 1) \div WordsPerMinute

NoDoc ==
  [exists |-> FALSE, user |-> "", status |-> "", contentSet |-> FALSE,
   content |-> <<>>, wordCount |-> 0, readingTime |-> 0, genTime |-> 0,
   error |-> "", seo |-> FALSE, images |-> FALSE, views |-> 0]

\* new Content({user, title, status: 'generating', ...}) with schema defaults
NewContent(u) ==
  [exists |-> TRUE, user |-> u, status |-> "generating", contentSet |-> FALSE,
   content |-> <<>>, wordCount |-> 0, readingTime |-> 0, genTime |-> 0,
   error |-> "", seo |-> FALSE, images |-> FALSE, views |-> 0]

\* `content: {type: String, required: true}`: a missing or empty string fails
ContentRequiredOk(d) == d.contentSet /\ Len(d.content) > 0

\* validation run by save(): required paths and the status enum
Validates(d) == ContentRequiredOk(d) /\ d.status \in StatusEnum

\* contentSchema.pre('save'): recompute the counters when content was modified
PreSave(d, contentModified) ==
  IF contentModified
  THEN [d EXCEPT !.wordCount = WordCount(d.content),
                 !.readingTime = ReadingTime(WordCount(d.content))]
  ELSE d

\* strict mode: an update path under `generation` that the schema does not
\* declare is dropped from the update
StrictGenerationError(msg) == IF "error" \in GenerationPaths THEN msg ELSE ""

(***************************************************************************)
(* Background task record                                                  *)
(***************************************************************************)
NoTask ==
  [pc |-> "none", id |-> 0, user |-> "", hasKey |-> FALSE,
   seoOptimize |-> FALSE, includeImages |-> FALSE, generated |-> <<>>,
   genTime |-> 0, saved |-> FALSE, wc |-> 0]

NoSnapshot == [status |-> "none", wordCount |-> 0, genTime |-> 0, error |-> ""]
NoResponse == [op |-> "none", user |-> "", code |-> 0, id |-> 0, snap |-> NoSnapshot]
NoResearch ==
  [path |-> "none", threw |-> FALSE, topic |-> "none", searchOk |-> FALSE,
   results |-> <<>>, out |-> <<>>]

\* the result of generateCompetitiveOutline, with the inputs of the call
NoOutlineResult ==
  [state |-> "none", hasKey |-> FALSE, providerOk |-> FALSE,
   response |-> [form |-> "text", payload |-> "none", lines |-> <<>>],
   outline |-> <<>>, parser |-> FALSE, default |-> FALSE]

\* the React state of CompetitiveBlogGenerator after mount (useState)
NoPage ==
  [step |-> 1, outline |-> <<>>, error |-> "", isResearching |-> FALSE,
   isGeneratingContent |-> FALSE, progress |-> 0]

\* handleGenerateAllContent is not running
IdleBatch == [pc |-> "idle", snap |-> <<>>, i |-> 0]

\* no handler of the page is suspended on an await: batch is the run of
\* handleGenerateAllContent, calls the sections whose handleGenerateSection
\* was started by the section's own button
NoGen == [batch |-> IdleBatch, calls |-> {}]

\* the last events of the page: consecutive reorders of one section, or a
\* failed call of the batch, with the outline before them; or an outline
\* replaced while section requests were in flight
NoTrail == [op |-> "none", id |-> 0, dirs |-> <<>>, before |-> <<>>]

\* a route handler suspended between its findOne and its save(), with the
\* document it loaded
NoReq == [op |-> "none", user |-> "", id |-> 0, doc |-> NoDoc]

\* the state of BlogWizard's generateContent: not running
NoAnswer == [ok |-> FALSE, status |-> "none", error |-> ""]

NoWizard ==
  [pc |-> "idle", user |-> "", contentId |-> 0, attempts |-> 0,
   isComplete |-> FALSE, error |-> "", isGenerating |-> FALSE,
   last |-> NoAnswer]

\* the last request of POST /api/competitive/generate-section and the
\* provider call it made
NoSecReq ==
  [state |-> "none", user |-> "", fieldsOk |-> FALSE, wordCount |-> 0,
   code |-> 0, called |-> FALSE]

\* the collections and the environment at start; n: the number of the next
\* document id
InitStoreAt(n) ==
  /\ store = [i \in Ids |-> NoDoc]
  /\ nextId = n
  /\ task = [i \in Ids |-> NoTask]
  /\ usage = [u \in Users |->
                [totalPosts |-> 0, totalWords |-> 0, wordsUsed |-> 0]]
  /\ apiKey = [u \in Users |-> u = "u1"]
  /\ resp = NoResponse
  /\ serpApiKey \in BOOLEAN
  /\ page = NoPage
  /\ gen = NoGen
  /\ trail = NoTrail
  /\ req = NoReq
  /\ wizard = NoWizard
  /\ secReq = NoSecReq

InitAt(n) ==
  InitStoreAt(n) /\ research = NoResearch /\ outlineRes = NoOutlineResult

Init == InitAt(1)

(***************************************************************************)
(* POST /api/ai/generate-content  ->  AIService.generateContent            *)
(***************************************************************************)
\* a faulty variant of FreshId: every new document gets the same _id
FreshIdReused == CHOOSE i \in Ids : \A j \in Ids : i <= j

\* the _id Mongoose gives a new document: never used before
FreshId == nextId

\* a faulty variant of Launched: generateContent awaits the background task
\* to its end before it returns
LaunchedAwaited(id, u, seo, img) ==
  [pc |-> "done", id |-> id, user |-> u, hasKey |-> apiKey[u],
   seoOptimize |-> seo, includeImages |-> img, generated |-> <<>>,
   genTime |-> 0, saved |-> FALSE, wc |-> 0]

\* the continuation of generateContentBackground after `await findById`:
\* the task is parked on that await when generateContent returns
Launched(id, u, seo, img) ==
  [NoTask EXCEPT !.pc = "find", !.id = id, !.user = u, !.hasKey = apiKey[u],
                 !.seoOptimize = seo, !.includeImages = img]

\* validate = TRUE is the handler as written: content.save() validates the
\* new document.  validate = FALSE is the same handler with the document of
\* lines 179-196 stored as it stands.
GenerateContentReq(u, topicOk, seo, img, validate) ==
  /\ nextId <= MaxRecords
  /\ UNCHANGED <<usage, apiKey, research, serpApiKey, outlineRes, page, gen, trail,
               req, secReq>>
  /\ IF ~topicOk
     THEN \* express-validator: 400, generateContent is not called
          /\ resp' = [op |-> "generate", user |-> u, code |-> 400, id |-> 0, snap |-> NoSnapshot]
          /\ UNCHANGED <<store, nextId, task>>
     ELSE LET doc == NewContent(u) IN
          IF validate /\ ~Validates(doc)
          THEN \* await content.save() rejects; the route answers 500
               /\ resp' = [op |-> "generate", user |-> u, code |-> 500,
                           id |-> 0, snap |-> NoSnapshot]
               /\ UNCHANGED <<store, nextId, task>>
          ELSE /\ store' = [store EXCEPT ![FreshId] = PreSave(doc, FALSE)]
               /\ task' = [task EXCEPT ![nextId] = Launched(FreshId, u, seo, img)]
               /\ nextId' = nextId + 1
               /\ resp' = [op |-> "generate", user |-> u, code |-> 200,
                           id |-> FreshId, snap |-> NoSnapshot]

GenerateContent ==
  \E u \in Users, topicOk \in BOOLEAN, seo \in BOOLEAN, img \in BOOLEAN :
    GenerateContentReq(u, topicOk, seo, img, TRUE) /\ UNCHANGED wizard

GenerateContentStored ==
  \E u \in Users, topicOk \in BOOLEAN, seo \in BOOLEAN, img \in BOOLEAN :
    GenerateContentReq(u, topicOk, seo, img, FALSE) /\ UNCHANGED wizard

(***************************************************************************)
(* AIService.generateContentBackground, one action per await               *)
(***************************************************************************)
\* a faulty variant of AfterUsage: the images are made first, and alone
AfterUsageImagesFirst(t) ==
  IF t.includeImages THEN "images" ELSE IF t.seoOptimize THEN "seo" ELSE "done"

\* what follows "Update user usage": the first post-processing step requested
AfterUsage(t) ==
  IF t.seoOptimize THEN "seo" ELSE IF t.includeImages THEN "images" ELSE "done"

AfterSeo(t) == IF t.includeImages THEN "images" ELSE "done"

\* await Content.findById; if (!content) return; initializeClient; the
\* provider request is sent.  A client constructor may reject a missing key.
BgFind(k) ==
  /\ task[k].pc = "find"
  /\ UNCHANGED <<store, nextId, usage, apiKey, resp, research, serpApiKey, outlineRes, page, gen, trail,
               req, wizard, secReq>>
  /\ IF ~store[task[k].id].exists
     THEN task' = [task EXCEPT ![k].pc = "done"]
     ELSE \/ task' = [task EXCEPT ![k].pc = "call"]
          \/ /\ ~task[k].hasKey
             /\ task' = [task EXCEPT ![k].pc = "catch"]

\* the provider call settles; on success the fields are assigned and
\* content.save() is issued
BgProvider(k) ==
  /\ task[k].pc = "call"
  /\ UNCHANGED <<store, nextId, usage, apiKey, resp, research, serpApiKey, outlineRes, page, gen, trail,
               req, wizard, secReq>>
  /\ \/ /\ task[k].hasKey
        /\ \E txt \in ProviderTexts, gt \in GenTimes :
             task' = [task EXCEPT ![k].pc = "save", ![k].generated = txt,
                                  ![k].genTime = gt]
     \/ task' = [task EXCEPT ![k].pc = "catch"]

\* await content.save(): validation, pre('save') hook, then the modified
\* paths are written
BgSave(k) ==
  /\ task[k].pc = "save"
  /\ UNCHANGED <<nextId, usage, apiKey, resp, research, serpApiKey, outlineRes, page, gen, trail,
               req, wizard, secReq>>
  /\ LET id == task[k].id
         doc == [store[id] EXCEPT !.contentSet = TRUE,
                                  !.content = task[k].generated,
                                  !.status = "completed",
                                  !.genTime = task[k].genTime]
     IN IF ~store[id].exists \/ ~Validates(doc)
        THEN /\ task' = [task EXCEPT ![k].pc = "catch"]
             /\ UNCHANGED store
        ELSE /\ store' = [store EXCEPT ![id] = PreSave(doc, TRUE)]
             /\ task' = [task EXCEPT ![k].pc = "usage", ![k].saved = TRUE,
                                     ![k].generated = <<>>, ![k].genTime = 0,
                                     ![k].wc = PreSave(doc, TRUE).wordCount]

\* a faulty variant of IncUsage: the counters are written with $set
SetUsage(counters, t) ==
  [totalPosts |-> 1, totalWords |-> t.wc, wordsUsed |-> t.wc]

\* {$inc: {'usage.totalPosts': 1, 'usage.totalWords': wordCount,
\* 'subscription.wordsUsed': wordCount}}, applied by the store to the
\* counters it holds
IncUsage(counters, t) ==
  [counters EXCEPT !.totalPosts = @ + 1, !.totalWords = @ + t.wc,
                   !.wordsUsed = @ + t.wc]

\* await User.findByIdAndUpdate(user.id, {$inc: ...})
BgUsage(k) ==
  /\ task[k].pc = "usage"
  /\ UNCHANGED <<store, nextId, apiKey, resp, research, serpApiKey, outlineRes, page, gen, trail,
               req, wizard, secReq>>
  /\ usage' = [usage EXCEPT ![task[k].user] = IncUsage(@, task[k])]
  /\ task' = [task EXCEPT ![k].pc = AfterUsage(task[k])]

\* await this.optimizeForSEO(...): findById, set seo fields, save; it
\* rethrows when the record is gone or a store operation rejects
BgSeo(k) ==
  /\ task[k].pc = "seo"
  /\ UNCHANGED <<nextId, usage, apiKey, resp, research, serpApiKey, outlineRes, page, gen, trail,
               req, wizard, secReq>>
  /\ \/ /\ store[task[k].id].exists
        /\ Validates(store[task[k].id])
        /\ store' = [store EXCEPT ![task[k].id].seo = TRUE]
        /\ task' = [task EXCEPT ![k].pc = AfterSeo(task[k])]
     \/ /\ task' = [task EXCEPT ![k].pc = "catch"]
        /\ UNCHANGED store

\* await this.generateImages(...)
BgImages(k) ==
  /\ task[k].pc = "images"
  /\ UNCHANGED <<nextId, usage, apiKey, resp, research, serpApiKey, outlineRes, page, gen, trail,
               req, wizard, secReq>>
  /\ \/ /\ store[task[k].id].exists
        /\ Validates(store[task[k].id])
        /\ store' = [store EXCEPT ![task[k].id].images = TRUE]
        /\ task' = [task EXCEPT ![k].pc = "done"]
     \/ /\ task' = [task EXCEPT ![k].pc = "catch"]
        /\ UNCHANGED store

\* catch (error): await Content.findByIdAndUpdate(contentId,
\*   {status: 'draft', 'generation.error': error.message})
BgCatch(k) ==
  /\ task[k].pc = "catch"
  /\ UNCHANGED <<nextId, usage, apiKey, resp, research, serpApiKey, outlineRes, page, gen, trail,
               req, wizard, secReq>>
  /\ task' = [task EXCEPT ![k].pc = "done"]
  /\ IF store[task[k].id].exists
     THEN store' = [store EXCEPT
                      ![task[k].id].status = "draft",
                      ![task[k].id].error = StrictGenerationError(ErrorMessage)]
     ELSE UNCHANGED store

Background ==
  \E k \in Ids : \/ BgFind(k) \/ BgProvider(k) \/ BgSave(k) \/ BgUsage(k)
                 \/ BgSeo(k) \/ BgImages(k) \/ BgCatch(k)

(***************************************************************************)
(* GET /api/ai/generation-status/:contentId -> AIService.getGenerationStatus*)
(***************************************************************************)
\* the object getGenerationStatus returns (the fields a client compares)
Snapshot(d) ==
  [status |-> d.status, wordCount |-> d.wordCount, genTime |-> d.genTime,
   error |-> d.error]

\* Content.findOne({_id: contentId, user: userId})
FindOwned(id, u) == store[id].exists /\ store[id].user = u

GetGenerationStatus(u, id) ==
  /\ UNCHANGED <<store, nextId, task, usage, apiKey, research, serpApiKey, outlineRes, page, gen, trail,
               req, secReq>>
  /\ IF FindOwned(id, u)
     THEN resp' = [op |-> "status", user |-> u, code |-> 200, id |-> id,
                   snap |-> Snapshot(store[id])]
     ELSE \* throw new Error('Content not found'); the route answers 500
          resp' = [op |-> "status", user |-> u, code |-> 500, id |-> id,
                   snap |-> NoSnapshot]

StatusPoll ==
  \E u \in Users, id \in Ids : GetGenerationStatus(u, id) /\ UNCHANGED wizard

(***************************************************************************)
(* PUT /api/content/:id : findOneAndUpdate({$set: req.body},               *)
(* {runValidators: true}).  The body may carry any schema path.            *)
(***************************************************************************)
PutStatuses == {"draft", "completed"}

\* the request bodies enumerated: each sets one path
PutBodies ==
  [path : {"content"}, content : PutTexts, status : {""}, wordCount : {0}]
  \cup [path : {"status"}, content : {<<>>}, status : PutStatuses \cup {"generating"},
        wordCount : {0}]
  \cup [path : {"metadata.wordCount"}, content : {<<>>}, status : {""},
        wordCount : {7}]

\* $set applied to the stored document; no save() and so no pre('save') hook
ApplySet(d, b) ==
  IF b.path = "content" THEN [d EXCEPT !.content = b.content, !.contentSet = TRUE]
  ELSE IF b.path = "status" THEN [d EXCEPT !.status = b.status]
  ELSE [d EXCEPT !.wordCount = b.wordCount]

UpdateContent(u, id, b) ==
  /\ UNCHANGED <<nextId, task, usage, apiKey, research, serpApiKey, outlineRes, page, gen, trail,
               req, wizard, secReq>>
  /\ IF b.path = "status" /\ b.status \notin PutStatuses
     THEN \* body('status').isIn(['draft', 'completed']) fails: 400
          /\ resp' = [op |-> "put", user |-> u, code |-> 400, id |-> id, snap |-> NoSnapshot]
          /\ UNCHANGED store
     ELSE IF b.path = "content" /\ Len(b.content) = 0
     THEN \* update validator: content is required
          /\ resp' = [op |-> "put", user |-> u, code |-> 500, id |-> id, snap |-> NoSnapshot]
          /\ UNCHANGED store
     ELSE IF ~FindOwned(id, u)
     THEN /\ resp' = [op |-> "put", user |-> u, code |-> 404, id |-> id, snap |-> NoSnapshot]
          /\ UNCHANGED store
     ELSE /\ store' = [store EXCEPT ![id] = ApplySet(store[id], b)]
          /\ resp' = [op |-> "put", user |-> u, code |-> 200, id |-> id, snap |-> NoSnapshot]

PutContent == \E u \in Users, id \in Ids, b \in PutBodies : UpdateContent(u, id, b)

(***************************************************************************)
(* GET /api/content/:id                                                    *)
(***************************************************************************)
\* await Content.findOne({_id, user}): 404 without a document of the caller
GetContentFind(u, id) ==
  /\ req.op = "none"
  /\ UNCHANGED <<store, nextId, task, usage, apiKey, research, serpApiKey,
                 outlineRes, page, gen, trail, wizard, secReq>>
  /\ IF FindOwned(id, u)
     THEN /\ store[id].views < MaxViews
          /\ req' = [op |-> "get", user |-> u, id |-> id, doc |-> store[id]]
          /\ UNCHANGED resp
     ELSE /\ resp' = [op |-> "get", user |-> u, code |-> 404, id |-> id,
                      snap |-> NoSnapshot]
          /\ UNCHANGED req

\* content.analytics.views += 1; await content.save(): the loaded document
\* is validated as it is in memory, then its modified path is written
GetContentSave ==
  /\ req.op = "get"
  /\ UNCHANGED <<nextId, task, usage, apiKey, research, serpApiKey,
                 outlineRes, page, gen, trail, wizard, secReq>>
  /\ req' = NoReq
  /\ LET doc == [req.doc EXCEPT !.views = @ + 1] IN
     IF ~Validates(doc)
     THEN /\ resp' = [op |-> "get", user |-> req.user, code |-> 500,
                      id |-> req.id, snap |-> NoSnapshot]
          /\ UNCHANGED store
     ELSE /\ store' = [store EXCEPT ![req.id].views = doc.views]
          /\ resp' = [op |-> "get", user |-> req.user, code |-> 200,
                      id |-> req.id, snap |-> NoSnapshot]

GetContent ==
  \/ \E u \in Users, id \in Ids : GetContentFind(u, id)
  \/ GetContentSave

(***************************************************************************)
(* POST /api/competitive/publish/:contentId                                *)
(***************************************************************************)
\* the route up to `await axios.post`.  connected is the account's
\* wordpressSettings.isConnected, set by the connect route.
PublishFind(u, id, connected) ==
  /\ req.op = "none"
  /\ UNCHANGED <<store, nextId, task, usage, apiKey, research, serpApiKey,
                 outlineRes, page, gen, trail, wizard, secReq>>
  /\ IF ~FindOwned(id, u)
     THEN /\ resp' = [op |-> "publish", user |-> u, code |-> 404, id |-> id,
                      snap |-> NoSnapshot]
          /\ UNCHANGED req
     ELSE IF ~connected
     THEN /\ resp' = [op |-> "publish", user |-> u, code |-> 400, id |-> id,
                      snap |-> NoSnapshot]
          /\ UNCHANGED req
     ELSE /\ req' = [op |-> "publish", user |-> u, id |-> id, doc |-> store[id]]
          /\ UNCHANGED resp

\* the post to WordPress settles; on success content.wordpress and
\* content.status = 'published' are set and content.save() is awaited
PublishSave ==
  /\ req.op = "publish"
  /\ UNCHANGED <<nextId, task, usage, apiKey, research, serpApiKey,
                 outlineRes, page, gen, trail, wizard, secReq>>
  /\ req' = NoReq
  /\ \/ /\ Validates([req.doc EXCEPT !.status = "published"])
        /\ store' = [store EXCEPT ![req.id].status = "published"]
        /\ resp' = [op |-> "publish", user |-> req.user, code |-> 200,
                    id |-> req.id, snap |-> NoSnapshot]
     \/ \* axios.post or save() rejects
        /\ resp' = [op |-> "publish", user |-> req.user, code |-> 500,
                    id |-> req.id, snap |-> NoSnapshot]
        /\ UNCHANGED store

Publish ==
  \/ \E u \in Users, id \in Ids, connected \in BOOLEAN :
       PublishFind(u, id, connected)
  \/ PublishSave

(***************************************************************************)
(* POST /api/ai/generate-images and POST /api/ai/optimize-seo: the routes  *)
(* pass req.body.contentId and req.user to the service, which loads the    *)
(* record with Content.findById(contentId)                                 *)
(***************************************************************************)
\* AIService.generateImages or optimizeForSEO called by the route: path is
\* "images" or "seo", the field the service sets before content.save()
PostProcessRoute(u, id, path) ==
  /\ UNCHANGED <<nextId, task, usage, apiKey, research, serpApiKey,
                 outlineRes, page, gen, trail, req, wizard, secReq>>
  /\ IF ~store[id].exists \/ ~Validates(store[id])
     THEN \* 'Content not found', or save() rejects: the route answers 500
          /\ resp' = [op |-> path, user |-> u, code |-> 500, id |-> id,
                      snap |-> NoSnapshot]
          /\ UNCHANGED store
     ELSE /\ store' = [store EXCEPT ![id] = [@ EXCEPT ![path] = TRUE]]
          /\ resp' = [op |-> path, user |-> u, code |-> 200, id |-> id,
                      snap |-> NoSnapshot]

GenerateImagesRoute ==
  \E u \in Users, id \in Ids : PostProcessRoute(u, id, "images")

OptimizeSeoRoute ==
  \E u \in Users, id \in Ids : PostProcessRoute(u, id, "seo")

(***************************************************************************)
(* PUT /api/user/ai-settings                                               *)
(***************************************************************************)
UpdateAISettings(u, key) ==
  /\ apiKey' = [apiKey EXCEPT ![u] = key]
  /\ resp' = [op |-> "ai-settings", user |-> u, code |-> 200, id |-> 0, snap |-> NoSnapshot]
  /\ UNCHANGED <<store, nextId, task, usage, research, serpApiKey, outlineRes, page, gen, trail,
               req, wizard, secReq>>

PutAISettings == \E u \in Users, key \in BOOLEAN : UpdateAISettings(u, key)

(***************************************************************************)
(* CompetitiveResearchService.performWebResearch                           *)
(***************************************************************************)
Min(a, b) == IF a < b THEN a ELSE b

\* a topic as it arrives in req.body: body('topic').notEmpty() admits any
\* non-empty JSON value
Topics == {"string", "number"}

\* A snippet is a sequence of tokens: n > 0 is a word of n characters, 0 is
\* a run of sentence terminators [.!?]+ written after a word.  Words are
\* separated by one blank.
Snippets ==
  { <<>>, <<5, 0>>, <<5, 6, 0, 4, 7, 0, 11, 0, 3, 8, 0>> }

\* snippet.split(/[.!?]+/), each piece trimmed: the character lengths of the
\* pieces (cur is the length of the piece read so far)
RECURSIVE SplitSnippet(_, _)
SplitSnippet(s, cur) ==
  IF s = <<>> THEN <<cur>>
  ELSE IF Head(s) = 0 THEN <<cur>> \o SplitSnippet(Tail(s), 0)
  ELSE SplitSnippet(Tail(s), IF cur = 0 THEN Head(s) ELSE cur + 1 + Head(s))

\* a faulty variant of ExtractHeadingsFromSnippet: the slice is left out
ExtractHeadingsUnsliced(snippet) ==
  SelectSeq(SplitSnippet(snippet, 0), LAMBDA n : n > MinSentenceLength)

\* extractHeadingsFromSnippet: the pieces longer than 10 characters, the
\* first three of them (a heading is modelled by its length)
ExtractHeadingsFromSnippet(snippet) ==
  LET sentences == SelectSeq(SplitSnippet(snippet, 0),
                             LAMBDA n : n > MinSentenceLength)
  IN SubSeq(sentences, 1, Min(Len(sentences), MaxSnippetHeadings))

\* estimateWordCount: text.split(/\s+/).filter(word => word.length > 0)
\*   .length * 10
EstimateWordCount(snippet) ==
  Cardinality({ i \in 1..Len(snippet) : snippet[i] # 0 }) * SnippetFactor

\* what scrapePage returns for a page that could be fetched
PageData == [headings |-> <<12, 20, 15, 30>>, wordCount |-> 1500]

\* organic_results of the search API: position 0 stands for a missing
\* (falsy) position; pageOk tells whether scrapePage succeeds for the link
SearchResult == [position : 0..MaxPos, pageOk : BOOLEAN, snippet : Snippets]

\* a response with more than ten organic results
LongResults ==
  [i \in 1..(TopN + 1) |->
     [position |-> 0, pageOk |-> (i % 2 = 0), snippet |-> <<5, 0>>]]

SearchResults ==
  UNION { [1..n -> SearchResult] : n \in 0..MaxResults } \cup {LongResults}

\* the summary pushed for result i (i is 1-based here, 0-based in the
\* source): the scraped branch, or the degraded branch of the inner catch;
\* ranking: result.position || i + 1 on both
CompetitorOf(result, i) ==
  [ranking |-> IF result.position # 0 THEN result.position ELSE i,
   snippet |-> result.snippet,
   scraped |-> result.pageOk,
   headings |-> IF result.pageOk THEN PageData.headings
                ELSE ExtractHeadingsFromSnippet(result.snippet),
   wordCount |-> IF result.pageOk THEN PageData.wordCount
                 ELSE EstimateWordCount(result.snippet)]

\* a faulty variant of ScrapeTopResults: a failed page is left out
ScrapeTopResultsSkipping(results) ==
  LET top == SubSeq(results, 1, Min(Len(results), TopN))
      ok == SelectSeq(top, LAMBDA r : r.pageOk)
  IN [i \in 1..Len(ok) |-> CompetitorOf(ok[i], i)]

\* scrapeTopResults: one summary per result of searchResults.slice(0, 10)
ScrapeTopResults(results) ==
  [i \in 1..Min(Len(results), TopN) |-> CompetitorOf(results[i], i)]

MockWordCounts == <<3500, 2800, 3200, 4100, 2600>>

\* a faulty variant of GenerateMockCompetitors: rankings counted from 0
GenerateMockCompetitorsZeroBased ==
  [i \in 1..MockCount |->
     [ranking |-> i - 1, snippet |-> <<>>, scraped |-> FALSE,
      headings |-> <<>>, wordCount |-> MockWordCounts[i]]]

\* generateMockCompetitors: five literal summaries, ranking 1..5
GenerateMockCompetitors ==
  [i \in 1..MockCount |->
     [ranking |-> i, snippet |-> <<>>, scraped |-> FALSE,
      headings |-> <<>>, wordCount |-> MockWordCounts[i]]]

\* topic.toLowerCase() in generateMockCompetitors throws for a non-string
MockThrows(topic) == topic # "string"

\* the call as a function of its inputs.  searchOk = FALSE: the query
\* rejects or the response has no organic_results field, and
\* getSearchResults throws
ResearchResult(key, topic, searchOk, results) ==
  IF key /\ searchOk
  THEN [path |-> "live", threw |-> FALSE, topic |-> topic,
        searchOk |-> searchOk, results |-> results,
        out |-> ScrapeTopResults(results)]
  ELSE \* the mock branch of the try block, or the catch block
       IF MockThrows(topic)
       THEN [path |-> "mock", threw |-> TRUE, topic |-> topic,
             searchOk |-> searchOk, results |-> results, out |-> <<>>]
       ELSE [path |-> "mock", threw |-> FALSE, topic |-> topic,
             searchOk |-> searchOk, results |-> results,
             out |-> GenerateMockCompetitors]

PerformWebResearch(topic, searchOk, results) ==
  /\ UNCHANGED <<store, nextId, task, usage, apiKey, resp, serpApiKey, outlineRes, page, gen, trail,
               req, wizard, secReq>>
  /\ research' = ResearchResult(serpApiKey, topic, searchOk, results)

\* the search responses enumerated for the route: the short ones and the
\* one with more than ten results
RouteResults == { r \in SearchResults : Len(r) # MaxResults }

WebResearch ==
  \E topic \in Topics, searchOk \in BOOLEAN, results \in RouteResults :
    PerformWebResearch(topic, searchOk, results)

\* a call whose inputs were drawn beforehand
ResearchCall ==
  /\ research.path = "pending"
  /\ PerformWebResearch(research.topic, research.searchOk, research.results)

(***************************************************************************)
(* CompetitiveResearchService.generateCompetitiveOutline and               *)
(* parseOutlineFromText                                                    *)
(***************************************************************************)
\* the lines of a response, by what parseOutlineFromText tells apart:
\* "header" matches one of the three section patterns, "brace" contains
\* '{' or '}' and matches none, "prose" is any other non-blank line
LineKinds == {"header", "prose", "brace", "blank"}

Texts == UNION { [1..n -> LineKinds] : n \in 0..MaxLines }

\* what JSON.parse returns for the JSON text of a response
JsonPayloads == {"sections", "no_outline", "empty_outline"}

\* provider responses: JSON, JSON in a ```json fence, or text in which
\* neither pattern of line 471 finds parsable JSON
Responses ==
  [form : {"json", "fenced"}, payload : JsonPayloads, lines : {<<>>}]
  \cup [form : {"text"}, payload : {"none"}, lines : Texts]

\* response.match(...) and JSON.parse(jsonString): the parsed value, or
\* "throws"
ExtractJson(response) ==
  IF response.form \in {"json", "fenced"} THEN response.payload ELSE "throws"

JsonSection == [title |-> "json", description |-> 1, wordCount |-> 600]

\* parsedResponse.outline || []
JsonOutline(payload) ==
  IF payload = "sections" THEN <<JsonSection, JsonSection>> ELSE <<>>

NoSection == [title |-> "none", description |-> 0, wordCount |-> 0]

\* the section opened by a header line; description counts the lines
\* appended to it
ParsedSection == [title |-> "parsed", description |-> 0, wordCount |-> 600]

DefaultTitles ==
  <<"Introduction", "Core Concepts", "Implementation Guide",
    "Advanced Strategies", "Common Mistakes", "Tools", "Conclusion">>

DefaultWordCounts == <<500, 800, 1000, 800, 600, 500, 400>>

\* the seven sections pushed when no section was found
DefaultOutline ==
  [i \in 1..Len(DefaultTitles) |->
     [title |-> DefaultTitles[i], description |-> 1,
      wordCount |-> DefaultWordCounts[i]]]

\* the loop of parseOutlineFromText over the non-blank lines, and the push
\* of the last section
RECURSIVE ParseLines(_, _, _)
ParseLines(lines, outline, currentSection) ==
  IF lines = <<>>
  THEN IF currentSection # NoSection THEN Append(outline, currentSection)
       ELSE outline
  ELSE LET line == Head(lines) IN
       IF line = "header"
       THEN ParseLines(Tail(lines),
                       IF currentSection # NoSection
                       THEN Append(outline, currentSection) ELSE outline,
                       ParsedSection)
       ELSE IF line = "prose" /\ currentSection # NoSection
       THEN ParseLines(Tail(lines), outline,
                       [currentSection EXCEPT !.description = @ + 1])
       ELSE ParseLines(Tail(lines), outline, currentSection)

\* a faulty variant of ParseOutlineFromText: the default outline is left out
ParseOutlineFromTextNoDefault(lines) ==
  [outline |-> ParseLines(lines, <<>>, NoSection), default |-> FALSE]

\* parseOutlineFromText
ParseOutlineFromText(lines) ==
  LET outline == ParseLines(lines, <<>>, NoSection)
  IN IF Len(outline) = 0
     THEN [outline |-> DefaultOutline, default |-> TRUE]
     ELSE [outline |-> outline, default |-> FALSE]

\* a faulty variant of ParseResponse: the JSON parse error is not caught
ParseResponseStrict(response) ==
  IF ExtractJson(response) = "throws"
  THEN [threw |-> TRUE, outline |-> <<>>, parser |-> FALSE, default |-> FALSE]
  ELSE [threw |-> FALSE, outline |-> JsonOutline(ExtractJson(response)),
        parser |-> FALSE, default |-> FALSE]

\* lines 467-487: the inner try/catch and the outline of the return value
ParseResponse(response) ==
  IF ExtractJson(response) = "throws"
  THEN [threw |-> FALSE,
        outline |-> ParseOutlineFromText(response.lines).outline,
        parser |-> TRUE,
        default |-> ParseOutlineFromText(response.lines).default]
  ELSE [threw |-> FALSE, outline |-> JsonOutline(ExtractJson(response)),
        parser |-> FALSE, default |-> FALSE]

\* generateCompetitiveOutline(params, user): validateUserAIConfig, the
\* provider call, the parse; every error reaches the caller
OutlineResult(hasKey, providerOk, response) ==
  LET in == [NoOutlineResult EXCEPT !.hasKey = hasKey,
                                    !.providerOk = providerOk,
                                    !.response = response]
  IN IF ~hasKey \/ ~providerOk \/ ParseResponse(response).threw
     THEN [in EXCEPT !.state = "threw"]
     ELSE [in EXCEPT !.state = "returned",
                     !.outline = ParseResponse(response).outline,
                     !.parser = ParseResponse(response).parser,
                     !.default = ParseResponse(response).default]

\* a call whose inputs were drawn beforehand
GenerateCompetitiveOutline ==
  /\ outlineRes.state = "pending"
  /\ outlineRes' = OutlineResult(outlineRes.hasKey, outlineRes.providerOk,
                                 outlineRes.response)
  /\ UNCHANGED <<store, nextId, task, usage, apiKey, resp, research,
                 serpApiKey, page, gen, trail,
               req, wizard, secReq>>

(***************************************************************************)
(* POST /api/competitive/generate-section                                  *)
(***************************************************************************)
\* the word counts a request may carry
SectionWordCounts ==
  {MinSectionWords - 1, MinSectionWords, MaxSectionWords, MaxSectionWords + 1}

\* a faulty variant of SectionWordCountOk: no upper limit
SectionWordCountAtLeast(wordCount) == wordCount >= MinSectionWords

\* body('wordCount').isInt({min: 100, max: 2000})
SectionWordCountOk(wordCount) ==
  wordCount >= MinSectionWords /\ wordCount <= MaxSectionWords

\* the route up to its answer or to the await of the provider call.
\* fieldsOk: title, description, tone and context pass their validators.
GenerateSectionReq(u, fieldsOk, wordCount) ==
  /\ secReq.state # "calling"
  /\ UNCHANGED <<store, nextId, task, usage, apiKey, resp, research,
                 serpApiKey, outlineRes, page, gen, trail, req, wizard>>
  /\ LET r == [state |-> "answered", user |-> u, fieldsOk |-> fieldsOk,
               wordCount |-> wordCount, code |-> 0, called |-> FALSE]
     IN IF ~fieldsOk \/ ~SectionWordCountOk(wordCount)
        THEN \* validationResult is not empty: 400
             secReq' = [r EXCEPT !.code = 400]
        ELSE IF ~apiKey[u]
        THEN \* validateUserAIConfig throws; the route answers 500
             secReq' = [r EXCEPT !.code = 500]
        ELSE secReq' = [r EXCEPT !.state = "calling", !.called = TRUE]

GenerateSection ==
  \E u \in Users, fieldsOk \in BOOLEAN, wordCount \in SectionWordCounts :
    GenerateSectionReq(u, fieldsOk, wordCount)

\* the provider call of generateSectionContent settles
SectionProviderReturns ==
  /\ secReq.state = "calling"
  /\ UNCHANGED <<store, nextId, task, usage, apiKey, resp, research,
                 serpApiKey, outlineRes, page, gen, trail, req, wizard>>
  /\ \E code \in {200, 500} :
       secReq' = [secReq EXCEPT !.state = "answered", !.code = code]

(***************************************************************************)
(* pages/BlogWizard.tsx: generateContent                                   *)
(***************************************************************************)
\* everything the wizard does not hold
notWizard ==
  <<store, nextId, task, usage, apiKey, resp, research, serpApiKey, outlineRes,
    page, gen, trail, req, secReq>>

\* the button of step 3, disabled while isGenerating: generateContent up to
\* `await apiService.generateOutline`
WizardGenerateClick ==
  /\ ~wizard.isGenerating /\ wizard.pc # "done"
  /\ nextId <= MaxRecords
  /\ \E u \in Users :
       wizard' = [NoWizard EXCEPT !.pc = "outline", !.user = u,
                                  !.isGenerating = TRUE]
  /\ UNCHANGED notWizard

\* the outline request settles: the content request is sent, or the outer
\* catch shows the error
WizardOutlineReturns ==
  /\ wizard.pc = "outline"
  /\ \/ wizard' = [wizard EXCEPT !.pc = "content"]
     \/ wizard' = [wizard EXCEPT !.pc = "failed", !.error = "outline",
                                 !.isGenerating = FALSE]
  /\ UNCHANGED notWizard

\* what the wizard does with the answer to its content request
ContentAnswered(w, ok, id) ==
  IF ok THEN [w EXCEPT !.pc = "wait", !.contentId = id]
  ELSE [w EXCEPT !.pc = "failed", !.error = "start", !.isGenerating = FALSE]

\* the server handles the content request of the wizard (the topic is not
\* empty: the button of step 1 is disabled otherwise)
WizardContentRequest ==
  /\ wizard.pc = "content"
  /\ \E seo \in BOOLEAN, img \in BOOLEAN :
       GenerateContentReq(wizard.user, TRUE, seo, img, FALSE)
  /\ wizard' = ContentAnswered(wizard, resp'.code = 200, resp'.id)

\* await new Promise(resolve => setTimeout(resolve, 10000)): the timer
\* fires and the status request is sent
WizardTimer ==
  /\ wizard.pc = "wait"
  /\ wizard' = [wizard EXCEPT !.pc = "poll"]
  /\ UNCHANGED notWizard

\* the inner try block throws: handleResponse on a response that is not ok,
\* or `throw new Error(status.error)` for a draft with an error
PollThrows(r) == ~r.ok \/ (r.status = "draft" /\ r.error # "")

\* one round of the polling loop from the answer r to the next await or to
\* the end of generateContent.  What the inner try block throws is caught
\* by the inner catch, which logs it: the round ends like one that found
\* the record still generating.
AfterPoll(w, r) ==
  LET attempts == w.attempts + 1 IN
  IF ~PollThrows(r) /\ r.status = "completed"
  THEN [w EXCEPT !.pc = "done", !.isComplete = TRUE, !.attempts = attempts,
                 !.isGenerating = FALSE, !.last = r]
  ELSE IF attempts < MaxAttempts
  THEN [w EXCEPT !.pc = "wait", !.attempts = attempts, !.last = r]
  ELSE \* throw new Error('Content generation timed out. ...')
       [w EXCEPT !.pc = "failed", !.error = "timeout", !.attempts = attempts,
                 !.isGenerating = FALSE, !.last = r]

\* the answer of the status route as apiService returns it
AnswerOf(r) ==
  IF r.code = 200
  THEN [ok |-> TRUE, status |-> r.snap.status, error |-> r.snap.error]
  ELSE NoAnswer

\* the server answers the status request of the wizard, or the request
\* fails on its way
WizardPoll ==
  /\ wizard.pc = "poll"
  /\ \/ /\ GetGenerationStatus(wizard.user, wizard.contentId)
        /\ wizard' = AfterPoll(wizard, AnswerOf(resp'))
     \/ /\ wizard' = AfterPoll(wizard, NoAnswer)
        /\ UNCHANGED notWizard

\* the answers a status request can get
StatusAnswers ==
  [ok : {TRUE}, status : StatusEnum, error : {"", ErrorMessage}]
    \cup {NoAnswer}

\* the wizard alone: its content request is answered
WizardContentReturns ==
  /\ wizard.pc = "content"
  /\ \E ok \in BOOLEAN, id \in Ids :
       wizard' = ContentAnswered(wizard, ok, IF ok THEN id ELSE 0)
  /\ UNCHANGED notWizard

\* the wizard alone: its status request is answered
WizardPollReturns ==
  /\ wizard.pc = "poll"
  /\ \E r \in StatusAnswers : wizard' = AfterPoll(wizard, r)
  /\ UNCHANGED notWizard

(***************************************************************************)
(* pages/CompetitiveBlogGenerator.tsx: the outline editor                  *)
(***************************************************************************)
serverVars ==
  <<store, nextId, task, usage, apiKey, resp, research, serpApiKey, outlineRes,
    req, wizard, secReq>>

\* a section of a new outline: id `section-${index}`, selected, order: index
NewSection(index) ==
  [id |-> index, selected |-> TRUE, order |-> index, title |-> "t0",
   content |-> "", isGenerating |-> FALSE]

\* outlineResponse.data.outline.map((section, index) => ...), n sections
NewOutline(n) == [i \in 1..n |-> NewSection(i - 1)]

\* prev.findIndex(s => s.id === sectionId), 1-based; 0 when there is none
FindIndex(outline, id) ==
  IF \E i \in 1..Len(outline) : outline[i].id = id
  THEN CHOOSE i \in 1..Len(outline) :
         /\ outline[i].id = id
         /\ \A j \in 1..(i - 1) : outline[j].id # id
  ELSE 0

\* prev.map(section => section.id === sectionId
\*   ? { ...section, [field]: value } : section)
MapSection(outline, id, field, value) ==
  [i \in 1..Len(outline) |->
     IF outline[i].id = id THEN [outline[i] EXCEPT ![field] = value]
     ELSE outline[i]]

\* a faulty variant of ReorderSection: the direction is ignored
ReorderSectionAlwaysUp(outline, id, direction) ==
  LET currentIndex == FindIndex(outline, id) IN
  IF currentIndex = 1 THEN outline
  ELSE LET swapped == [outline EXCEPT ![currentIndex] = outline[currentIndex - 1],
                                     ![currentIndex - 1] = outline[currentIndex]]
       IN [i \in 1..Len(outline) |-> [swapped[i] EXCEPT !.order = i - 1]]

\* a faulty variant of ReorderSection: the sections are swapped and their
\* order values are kept
ReorderSectionNoRenumber(outline, id, direction) ==
  LET currentIndex == FindIndex(outline, id) IN
  IF \/ direction = "up" /\ currentIndex = 1
     \/ direction = "down" /\ currentIndex = Len(outline)
  THEN outline
  ELSE LET targetIndex == IF direction = "up" THEN currentIndex - 1
                          ELSE currentIndex + 1
       IN [outline EXCEPT ![currentIndex] = outline[targetIndex],
                          ![targetIndex] = outline[currentIndex]]

\* the updater of handleReorderSection
ReorderSection(outline, id, direction) ==
  LET currentIndex == FindIndex(outline, id) IN
  IF \/ direction = "up" /\ currentIndex = 1
     \/ direction = "down" /\ currentIndex = Len(outline)
  THEN outline
  ELSE LET targetIndex == IF direction = "up" THEN currentIndex - 1
                          ELSE currentIndex + 1
           swapped == [outline EXCEPT ![currentIndex] = outline[targetIndex],
                                      ![targetIndex] = outline[currentIndex]]
       IN [i \in 1..Len(outline) |-> [swapped[i] EXCEPT !.order = i - 1]]

SectionIdsOf(outline) == { outline[i].id : i \in 1..Len(outline) }

\* one step of the page: the server is not touched
PageStep(p, g, t) ==
  /\ page' = p
  /\ gen' = g
  /\ trail' = t
  /\ UNCHANGED serverVars

\* handleResearchAndOutline up to its first await (the button is disabled
\* while isResearching)
ResearchClick ==
  /\ page.step = 1 /\ ~page.isResearching
  /\ PageStep([page EXCEPT !.isResearching = TRUE, !.error = ""], gen, NoTrail)

\* the two requests of handleResearchAndOutline settle: the outline is
\* replaced and step 2 is shown, or the error is set
ResearchReturns ==
  /\ page.isResearching
  /\ \/ \E n \in 0..MaxSections :
          PageStep([page EXCEPT !.isResearching = FALSE,
                                !.outline = NewOutline(n), !.step = 2],
                   gen,
                   IF gen.batch.pc = "await" \/ gen.calls # {}
                   THEN [NoTrail EXCEPT !.op = "replaced"]
                   ELSE NoTrail)
     \/ PageStep([page EXCEPT !.isResearching = FALSE, !.error = "research"],
                 gen, NoTrail)

\* the buttons "Back to Research" (step 2) and "Back to Outline" (step 3)
BackToResearch ==
  /\ page.step = 2
  /\ PageStep([page EXCEPT !.step = 1], gen, NoTrail)

BackToOutline ==
  /\ page.step = 3
  /\ PageStep([page EXCEPT !.step = 2], gen, NoTrail)

\* handleSectionToggle, from the checkbox of step 2
SectionToggle ==
  /\ page.step = 2
  /\ \E id \in SectionIdsOf(page.outline) :
       PageStep([page EXCEPT !.outline =
                   MapSection(@, id, "selected",
                              ~page.outline[FindIndex(page.outline, id)].selected)],
                gen, NoTrail)

\* handleSectionEdit(section.id, 'title', value), from the input of step 2
SectionEditTitle ==
  /\ page.step = 2
  /\ \E id \in SectionIdsOf(page.outline) :
       PageStep([page EXCEPT !.outline = MapSection(@, id, "title", "t1")],
                gen, NoTrail)

\* the consecutive reorders of one section, two at most
TrailAfterReorder(id, direction) ==
  IF trail.op = "reorder" /\ trail.id = id /\ Len(trail.dirs) = 1
  THEN [trail EXCEPT !.dirs = Append(@, direction)]
  ELSE [op |-> "reorder", id |-> id, dirs |-> <<direction>>,
        before |-> page.outline]

\* handleReorderSection, from the buttons of step 2: "up" is disabled for
\* the first section shown and "down" for the last
ReorderClick ==
  /\ page.step = 2
  /\ \E id \in SectionIdsOf(page.outline), direction \in {"up", "down"} :
       /\ direction = "up" => FindIndex(page.outline, id) # 1
       /\ direction = "down" => FindIndex(page.outline, id) # Len(page.outline)
       /\ PageStep([page EXCEPT !.outline = ReorderSection(@, id, direction)],
                   gen, TrailAfterReorder(id, direction))

(***************************************************************************)
(* pages/CompetitiveBlogGenerator.tsx: section generation                  *)
(***************************************************************************)
\* the section with this id, as the page holds it
SectionOf(outline, id) == outline[FindIndex(outline, id)]

\* the success branch of handleGenerateSection (lines 178-182)
SectionGenerated(p, id) ==
  [p EXCEPT !.outline =
     MapSection(MapSection(@, id, "content", "gen"), id, "isGenerating", FALSE)]

\* a faulty variant of SectionFailed: the flag is not cleared
SectionFailedStuck(p, id) == [p EXCEPT !.error = "section"]

\* the catch block of handleGenerateSection (lines 183-190); nothing is
\* rethrown
SectionFailed(p, id) ==
  [p EXCEPT !.error = "section",
            !.outline = MapSection(@, id, "isGenerating", FALSE)]

\* context.previousSections of the request for section id, by the ids of
\* its sections: outline.slice(0, section.order).filter(s => s.content),
\* where outline is the one of the render whose handler runs
PreviousSections(closure, id) ==
  { closure[j].id : j \in { n \in 1..Len(closure) :
        n <= SectionOf(closure, id).order /\ closure[n].content # "" } }

\* (i / selectedSections.length) * 100, i sections before the current one
Progress(i, n) == (i * 100) \div n

\* the loop of handleGenerateAllContent from its i-th section (1-based) up
\* to its next await or its end.  b is the run of the handler: b.snap is
\* selectedSections, the sections as they were when the button was clicked;
\* handleGenerateSection marks the section in the current outline and sends
\* the request.
RECURSIVE BatchLoop(_, _, _)
BatchLoop(p, b, i) ==
  IF i > Len(b.snap)
  THEN \* setGenerationProgress(100); setCurrentStep(3); finally
       [page |-> [p EXCEPT !.step = 3, !.isGeneratingContent = FALSE,
                           !.progress = 0],
        batch |-> IdleBatch]
  ELSE IF b.snap[i].content # ""
  THEN BatchLoop(p, b, i + 1)
  ELSE [page |-> [p EXCEPT !.progress = Progress(i - 1, Len(b.snap)),
                           !.outline = MapSection(@, b.snap[i].id,
                                                  "isGenerating", TRUE)],
        batch |-> [b EXCEPT !.pc = "await", !.i = i]]

\* outline.filter(s => s.selected), the fields the loop reads; prev is the
\* previousSections that the handleGenerateSection of this render sends
\* with the request for the section
SelectedSections(outline) ==
  LET sel == SelectSeq(outline, LAMBDA sec : sec.selected)
  IN [i \in 1..Len(sel) |->
        [id |-> sel[i].id, content |-> sel[i].content,
         prev |-> PreviousSections(outline, sel[i].id)]]

\* handleGenerateAllContent, from the button of step 2 (disabled without a
\* selected section and while isGeneratingContent)
GenerateAllClick ==
  /\ page.step = 2
  /\ Len(SelectedSections(page.outline)) > 0
  /\ ~page.isGeneratingContent
  /\ LET r == BatchLoop([page EXCEPT !.isGeneratingContent = TRUE,
                                     !.progress = 0, !.error = ""],
                        [IdleBatch EXCEPT
                           !.snap = SelectedSections(page.outline)], 1)
     IN PageStep(r.page, [gen EXCEPT !.batch = r.batch], NoTrail)

\* the request of the batch settles: handleGenerateSection ends and the
\* loop goes on
BatchCallReturns ==
  /\ gen.batch.pc = "await"
  /\ LET id == gen.batch.snap[gen.batch.i].id IN
     \/ LET r == BatchLoop(SectionGenerated(page, id), gen.batch,
                           gen.batch.i + 1)
        IN PageStep(r.page, [gen EXCEPT !.batch = r.batch], NoTrail)
     \/ LET r == BatchLoop(SectionFailed(page, id), gen.batch,
                           gen.batch.i + 1)
        IN PageStep(r.page, [gen EXCEPT !.batch = r.batch],
                    [op |-> "batchFail", id |-> id, dirs |-> <<>>,
                     before |-> page.outline])

\* handleGenerateSection from the "Generate" button of step 3: shown for a
\* selected section without content, disabled while isGenerating.  One
\* request per section is followed at a time.
GenerateSectionClick ==
  /\ page.step = 3
  /\ \E id \in SectionIdsOf(page.outline) \ gen.calls :
       /\ SectionOf(page.outline, id).selected
       /\ SectionOf(page.outline, id).content = ""
       /\ ~SectionOf(page.outline, id).isGenerating
       /\ PageStep([page EXCEPT !.outline =
                      MapSection(@, id, "isGenerating", TRUE)],
                   [gen EXCEPT !.calls = @ \cup {id}], NoTrail)

\* the request of a section's own button settles
SectionCallReturns ==
  \E id \in gen.calls :
    \/ PageStep(SectionGenerated(page, id),
                [gen EXCEPT !.calls = @ \ {id}], NoTrail)
    \/ PageStep(SectionFailed(page, id),
                [gen EXCEPT !.calls = @ \ {id}], NoTrail)

\* handleSectionEdit(section.id, 'content', value), from the textarea of
\* step 3, shown for a selected section with content
ContentEdit ==
  /\ page.step = 3
  /\ \E id \in SectionIdsOf(page.outline), value \in {"edit", ""} :
       /\ SectionOf(page.outline, id).selected
       /\ SectionOf(page.outline, id).content # ""
       /\ PageStep([page EXCEPT !.outline = MapSection(@, id, "content", value)],
                   gen, NoTrail)

(***************************************************************************)
(* Specifications                                                          *)
(***************************************************************************)
\* the server as written
Next ==
  \/ GenerateContent
  \/ StatusPoll
  \/ PutContent
  \/ PutAISettings
  \/ WebResearch

Spec == Init /\ [][Next]_vars

\* the pipeline behind a stored generation record: generateContent with its
\* document stored, so that the background task and the record routes act
InitStored == Init /\ serpApiKey = FALSE

NextStored ==
  \/ GenerateContentStored
  \/ Background
  \/ StatusPoll

SpecStored == InitStored /\ [][NextStored]_vars

\* the background tasks of concurrent generations alone
NextTasks ==
  \/ GenerateContentStored
  \/ Background

SpecTasks == InitStored /\ [][NextTasks]_vars

\* one stored record, with the edits of its owner
InitRecord == InitAt(MaxRecords) /\ serpApiKey = FALSE

NextRecord ==
  \/ GenerateContentStored
  \/ Background
  \/ StatusPoll
  \/ PutContent

SpecRecord == InitRecord /\ [][NextRecord]_vars

\* one stored record with the reads and the edits of its owner
NextReads ==
  \/ GenerateContentStored
  \/ Background
  \/ GetContent
  \/ PutContent

SpecReads == InitRecord /\ [][NextReads]_vars

\* the two generation routes up to their provider calls
NextValidation ==
  \/ GenerateContentStored
  \/ GenerateSection
  \/ SectionProviderReturns

SpecValidation == InitStored /\ [][NextValidation]_vars

\* one run of the wizard against the server
NextWizard ==
  \/ WizardGenerateClick
  \/ WizardOutlineReturns
  \/ WizardContentRequest
  \/ WizardTimer
  \/ WizardPoll
  \/ Background
  \/ StatusPoll

SpecWizard == InitRecord /\ [][NextWizard]_vars

\* the wizard against every answer its requests can get
NextWizardClient ==
  \/ WizardGenerateClick
  \/ WizardOutlineReturns
  \/ WizardContentReturns
  \/ WizardTimer
  \/ WizardPollReturns

SpecWizardClient == InitStored /\ [][NextWizardClient]_vars

\* one stored record with the publish route and the edits of its owner
NextPublish ==
  \/ GenerateContentStored
  \/ Background
  \/ Publish
  \/ PutContent

SpecPublish == InitRecord /\ [][NextPublish]_vars

\* the records of two accounts with the routes that take a record id
NextOwner ==
  \/ GenerateContentStored
  \/ Background
  \/ StatusPoll
  \/ GenerateImagesRoute
  \/ OptimizeSeoRoute
  \/ PutContent

SpecOwner == InitRecord /\ [][NextOwner]_vars

\* performWebResearch applied to every input
InitResearch ==
  /\ InitStoreAt(1)
  /\ outlineRes = NoOutlineResult
  /\ \E topic \in Topics, searchOk \in BOOLEAN, results \in SearchResults :
       research = [NoResearch EXCEPT !.path = "pending", !.topic = topic,
                                     !.searchOk = searchOk, !.results = results]

NextResearch == ResearchCall

SpecResearch == InitResearch /\ [][NextResearch]_vars

\* generateCompetitiveOutline applied to every input
InitOutline ==
  /\ InitStoreAt(1)
  /\ research = NoResearch
  /\ \E hasKey \in BOOLEAN, providerOk \in BOOLEAN, response \in Responses :
       outlineRes = [NoOutlineResult EXCEPT !.state = "pending",
                                            !.hasKey = hasKey,
                                            !.providerOk = providerOk,
                                            !.response = response]

NextOutline == GenerateCompetitiveOutline

SpecOutline == InitOutline /\ [][NextOutline]_vars

\* the outline editor of the page
InitEditor == Init /\ serpApiKey = FALSE

NextEditor ==
  \/ ResearchClick
  \/ ResearchReturns
  \/ BackToResearch
  \/ SectionToggle
  \/ SectionEditTitle
  \/ ReorderClick

SpecEditor == InitEditor /\ [][NextEditor]_vars

\* the page with its section generation
NextBatch ==
  \/ ResearchClick
  \/ ResearchReturns
  \/ BackToResearch
  \/ BackToOutline
  \/ SectionToggle
  \/ ReorderClick
  \/ GenerateAllClick
  \/ BatchCallReturns
  \/ GenerateSectionClick
  \/ SectionCallReturns
  \/ ContentEdit

SpecBatch == InitEditor /\ [][NextBatch]_vars

\* the same without the reorder buttons
NextGenerate ==
  \/ ResearchClick
  \/ ResearchReturns
  \/ BackToResearch
  \/ BackToOutline
  \/ SectionToggle
  \/ GenerateAllClick
  \/ BatchCallReturns
  \/ GenerateSectionClick
  \/ SectionCallReturns
  \/ ContentEdit

SpecGenerate == InitEditor /\ [][NextGenerate]_vars

(***************************************************************************)
(* Properties                                                              *)
(***************************************************************************)
\* a start request answered in this step
StartAnswered == resp' # resp /\ resp'.op = "generate"

\* the save of task k settles in this step
SaveSettles(k) == task[k].pc = "save" /\ task'[k].pc # "save"

\* C1: a generation request with a non-empty topic and valid credentials
\* creates a record with status 'generating' and returns its id; once the
\* provider call succeeded, the saved record is 'completed' with
\* wordCount > 0 and no generation.error.
C1_StartCreatesGeneratingRecord ==
  [][ /\ (StartAnswered /\ resp'.code # 400 /\ apiKey[resp'.user])
          => /\ resp'.code = 200
             /\ resp'.id \in Ids
             /\ store'[resp'.id].exists
             /\ store'[resp'.id].status = "generating"
      /\ \A k \in Ids : SaveSettles(k)
          => /\ store'[task[k].id].status = "completed"
             /\ store'[task[k].id].wordCount > 0
             /\ store'[task[k].id].error = "" ]_vars

\* the catch block of task k runs in this step, after its content was saved
CatchAfterSave(k) ==
  task[k].pc = "catch" /\ task'[k].pc = "done" /\ task[k].saved

\* C2: when optimizeForSEO or generateImages fails after the content was
\* saved as 'completed', the task leaves the record's status as it is and
\* records no generation error.
C2_PostProcessingFailureKeepsStatus ==
  [][ \A k \in Ids : CatchAfterSave(k)
        => /\ store'[task[k].id].status = store[task[k].id].status
           /\ store'[task[k].id].error = store[task[k].id].error ]_vars

\* task k ended without having saved content, on a record that exists
FailedGeneration(k) ==
  task[k].pc = "done" /\ ~task[k].saved /\ store[task[k].id].exists

\* C3: when the provider call fails, the record ends as 'draft' with a
\* non-empty generation.error that the status operation returns, and its
\* content is unset.
C3_FailureStoresError ==
  \A k \in Ids : FailedGeneration(k)
     => /\ store[task[k].id].status = "draft"
        /\ Snapshot(store[task[k].id]).error # ""
        /\ ~store[task[k].id].contentSet

TerminalSnapshot(sn) ==
  sn.status = "completed" \/ (sn.status = "draft" /\ sn.error # "")

\* C5: when a background task has ended, its record has left 'generating'
\* for 'completed' or for 'draft' with an error, so that polling the status
\* operation tells the outcome.
C5_OutcomeReadableByPolling ==
  \A k \in Ids : (task[k].pc = "done" /\ store[task[k].id].exists)
     => TerminalSnapshot(Snapshot(store[task[k].id]))

\* two successive status answers for the same record
PolledAgain ==
  /\ resp.op = "status" /\ resp.code = 200
  /\ resp'.op = "status" /\ resp'.code = 200
  /\ resp'.id = resp.id

\* C6: once a status poll returned a terminal status, the next poll of the
\* record returns the same status, wordCount, generationTime and error.
C6_TerminalSnapshotStable ==
  [][ (PolledAgain /\ TerminalSnapshot(resp.snap))
        => resp'.snap = resp.snap ]_vars

\* C7: in every state of every record, metadata.wordCount is the number of
\* whitespace-delimited tokens of content and metadata.readingTime is
\* ceil(wordCount / 200).
C7_WordCountMatchesContent ==
  \A id \in Ids : store[id].exists
     => /\ store[id].wordCount = WordCount(store[id].content)
        /\ store[id].readingTime = ReadingTime(store[id].wordCount)

\* C8: no two background tasks ever run for the same record id.
C8_OneTaskPerRecord ==
  \A j \in Ids, k \in Ids :
     (j # k /\ task[j].pc # "none" /\ task[k].pc # "none")
        => task[j].id # task[k].id

\* two tasks of different records await their provider calls together
C8_Witness ==
  /\ task[1].pc = "call" /\ task[2].pc = "call"
  /\ task[1].id # task[2].id

\* some background task awaits its provider call
AwaitingProvider == \E k \in Ids : task[k].pc = "call"

\* C9: the start request is answered while its task is parked on its first
\* await, before the provider call; and while a task awaits its provider
\* call, new start requests are accepted and status polls are answered for
\* every record.
C9_StartDoesNotWaitForProvider ==
  /\ [][ (StartAnswered /\ resp'.code = 200)
           => \E k \in Ids : /\ task[k].pc = "none"
                             /\ task'[k].id = resp'.id
                             /\ task'[k].pc = "find" ]_vars
  /\ [](AwaitingProvider
          => /\ (nextId <= MaxRecords => ENABLED GenerateContentStored)
             /\ \A u \in Users, id \in Ids : ENABLED GetGenerationStatus(u, id))

\* a second start request was answered with its id while the first task
\* awaits the provider
C9_Witness ==
  /\ task[1].pc = "call"
  /\ task[2].pc = "find"
  /\ resp.op = "generate" /\ resp.code = 200 /\ resp.id = task[2].id

\* C10: for a non-empty string topic, performWebResearch does not throw and
\* returns a non-empty list whose rankings are 1..N in order.
C10_ResearchRanksOneToN ==
  (research.path # "none" /\ research.topic = "string")
     => /\ ~research.threw
        /\ Len(research.out) > 0
        /\ \A i \in 1..Len(research.out) : research.out[i].ranking = i

\* a research call has returned or thrown
ResearchDone == research.path \in {"live", "mock"}

\* C11: with no search backend, or when the search query throws, the call
\* for a topic string throws nothing and returns the synthetic set: five
\* summaries ranked 1..5, the same set whatever made the call fall back.
C11_FallbackIsSyntheticSet ==
  (ResearchDone /\ research.topic = "string"
     /\ (~serpApiKey \/ ~research.searchOk))
    => /\ ~research.threw
       /\ Len(research.out) = MockCount
       /\ \A i \in 1..MockCount : research.out[i].ranking = i
       /\ research.out = ResearchResult(FALSE, research.topic, TRUE, <<>>).out

\* the search backend is configured and its query threw
C11_Witness ==
  /\ ResearchDone /\ research.topic = "string"
  /\ serpApiKey /\ ~research.searchOk
  /\ Len(research.out) = MockCount

\* the pieces of a snippet, as a set
SnippetPieces(snippet) ==
  { SplitSnippet(snippet, 0)[j] : j \in 1..Len(SplitSnippet(snippet, 0)) }

\* C12: on the live path the list has one summary per search result of the
\* first ten, in result order, whatever pages failed; the summary of a
\* failed page has at most three headings, all sentences of the snippet, and
\* a word count of ten times the snippet's words.
C12_FailedPagesDegradeOnly ==
  research.path = "live"
    => /\ Len(research.out) = Min(TopN, Len(research.results))
       /\ \A i \in 1..Len(research.out) :
            LET r == research.results[i]
                c == research.out[i]
            IN /\ c.snippet = r.snippet
               /\ c.scraped = r.pageOk
               /\ ~r.pageOk =>
                    /\ Len(c.headings) <= MaxSnippetHeadings
                    /\ \A h \in 1..Len(c.headings) :
                         c.headings[h] \in SnippetPieces(r.snippet)
                    /\ c.wordCount
                         = SnippetFactor
                             * Cardinality({ j \in 1..Len(r.snippet) : r.snippet[j] # 0 })

\* more than ten results came back, some of their pages failed
C12_Witness ==
  /\ research.path = "live"
  /\ Len(research.results) > TopN
  /\ Len(research.out) = TopN
  /\ \E i \in 1..Len(research.out) : ~research.out[i].scraped

\* C13: whatever the provider answered, the outline that
\* generateCompetitiveOutline returns has at least one section.
C13_OutlineNeverEmpty ==
  outlineRes.state = "returned" => Len(outlineRes.outline) > 0

\* the heuristic parser ran on the response
ParserRan == outlineRes.state = "returned" /\ outlineRes.parser

\* no line of the response is recognised as a section boundary
NoBoundary ==
  \A i \in 1..Len(outlineRes.response.lines) :
     outlineRes.response.lines[i] # "header"

\* C14: parseOutlineFromText never returns an empty list; for a text
\* without any recognised section boundary it returns the fixed default
\* outline, which has at least 5 sections.
C14_ParserYieldsSections ==
  ParserRan
    => /\ Len(outlineRes.outline) > 0
       /\ NoBoundary
            => /\ Len(outlineRes.outline) >= 5
               /\ \A i \in 1..Len(outlineRes.outline) :
                    outlineRes.outline[i].title = DefaultTitles[i]

\* prose without boundary went through the parser
C14_Witness ==
  /\ ParserRan /\ NoBoundary
  /\ \E i \in 1..Len(outlineRes.response.lines) :
       outlineRes.response.lines[i] = "prose"
  /\ Len(outlineRes.outline) = Len(DefaultTitles)

\* the provider answered the call of a configured account
Answered == outlineRes.state \in {"returned", "threw"}
              /\ outlineRes.hasKey /\ outlineRes.providerOk

\* C15: when the response is not valid JSON, generateCompetitiveOutline
\* returns (no error reaches the caller), the outline comes from the
\* heuristic parser, and the default outline is used exactly when the
\* parser recognised no section.
C15_ParseFailureAbsorbed ==
  (Answered /\ ExtractJson(outlineRes.response) = "throws")
    => /\ outlineRes.state = "returned"
       /\ outlineRes.parser
       /\ outlineRes.default <=> NoBoundary
       /\ ~outlineRes.default
            => \A i \in 1..Len(outlineRes.outline) :
                 outlineRes.outline[i].title = "parsed"

\* a text with a section header went through the parser
C15_Witness ==
  /\ Answered /\ ExtractJson(outlineRes.response) = "throws"
  /\ ~NoBoundary
  /\ outlineRes.state = "returned" /\ ~outlineRes.default

\* one section was reordered twice in a row, in opposite directions
ReorderedBack ==
  /\ trail.op = "reorder"
  /\ Len(trail.dirs) = 2
  /\ trail.dirs[1] # trail.dirs[2]

C17_OrderIsPosition ==
  \A i \in 1..Len(page.outline) : page.outline[i].order = i - 1

\* a reordered, toggled and edited outline
C17_Witness ==
  /\ Len(page.outline) >= 2
  /\ page.outline[1].id # 0
  /\ \E i \in 1..Len(page.outline) : ~page.outline[i].selected
  /\ \E i \in 1..Len(page.outline) : page.outline[i].title = "t1"

BatchIssues(id) ==
  /\ gen'.batch.pc = "await"
  /\ gen.batch.pc # "await" \/ gen'.batch.i # gen.batch.i
  /\ id = gen'.batch.snap[gen'.batch.i].id

\* C19: when the batch sends a request, it is for a section of the outline
\* that is selected and has no content and is marked as generating, every
\* selected section before it in order has content, and the progress is
\* the share of the selected sections the batch has completed, each of
\* which has content.
C19_BatchFollowsSelection ==
  [][ \A id \in 0..(MaxSections - 1) : BatchIssues(id)
        => /\ id \in SectionIdsOf(page'.outline)
           /\ SectionOf(page'.outline, id).selected
           /\ SectionOf(page'.outline, id).content = ""
           /\ SectionOf(page'.outline, id).isGenerating
           /\ \A j \in 1..Len(page'.outline) :
                (page'.outline[j].selected
                   /\ page'.outline[j].order < SectionOf(page'.outline, id).order)
                  => page'.outline[j].content # ""
           /\ page'.progress
                = Progress(gen'.batch.i - 1, Len(SelectedSections(page'.outline)))
           /\ \A k \in 1..(gen'.batch.i - 1) :
                /\ gen'.batch.snap[k].id \in SectionIdsOf(page'.outline)
                /\ SectionOf(page'.outline, gen'.batch.snap[k].id).content # "" ]_vars

\* the tasks of account u whose usage update was applied
Counted(u) ==
  { k \in Ids : task[k].user = u /\ task[k].saved /\ task[k].pc # "usage" }

RECURSIVE SumWords(_)
SumWords(S) ==
  IF S = {} THEN 0
  ELSE LET k == CHOOSE x \in S : TRUE IN task[k].wc + SumWords(S \ {k})

ReadSettles == req.op = "get" /\ req'.op = "none"

\* the background task of record id has not ended
BeingGenerated(id) == \E k \in Ids : task[k].id = id /\ task[k].pc # "done"

\* C21: while a record is being generated, a read of it adds one to its
\* view count and leaves content, status and generation time alone; the
\* save of the background task writes content, status and generation time
\* and leaves the view count alone; and nothing else writes the record.
C21_ReadAndGenerationDisjoint ==
  [][ /\ (ReadSettles /\ BeingGenerated(req.id))
           => /\ store'[req.id].views = store[req.id].views + 1
              /\ store'[req.id].content = store[req.id].content
              /\ store'[req.id].status = store[req.id].status
              /\ store'[req.id].genTime = store[req.id].genTime
      /\ \A k \in Ids : (SaveSettles(k) /\ task'[k].saved)
           => /\ store'[task[k].id].content = task[k].generated
              /\ store'[task[k].id].status = "completed"
              /\ store'[task[k].id].genTime = task[k].genTime
              /\ store'[task[k].id].views = store[task[k].id].views
      /\ \A id \in Ids : (BeingGenerated(id) /\ store'[id] # store[id])
           => \/ ReadSettles /\ req.id = id
              \/ \E k \in Ids : task[k].id = id /\ task'[k] # task[k] ]_vars

\* a section request is answered without having waited for the provider
SectionAnsweredAtOnce ==
  secReq' # secReq /\ secReq.state # "calling" /\ secReq'.state = "answered"

\* C22: a generation request without topic, and a section request whose
\* word count is outside 100..2000, is answered 400 in the request: no
\* record is created, no background task is launched and no provider call
\* is made.
C22_InvalidRequestRejected ==
  [][ /\ \A u \in Users, seo \in BOOLEAN, img \in BOOLEAN :
           (GenerateContentReq(u, FALSE, seo, img, FALSE) /\ UNCHANGED wizard)
             => /\ resp'.code = 400
                /\ store' = store /\ nextId' = nextId /\ task' = task
      /\ (SectionAnsweredAtOnce
             /\ (secReq'.wordCount < 100 \/ secReq'.wordCount > 2000))
           => /\ secReq'.code = 400
              /\ ~secReq'.called
              /\ store' = store /\ nextId' = nextId /\ task' = task ]_vars

\* with a record stored and its task launched, a start request without
\* topic and a section request for 2001 words were rejected
C22_Witness ==
  /\ resp.op = "generate" /\ resp.code = 400
  /\ secReq.state = "answered" /\ secReq.fieldsOk
  /\ secReq.wordCount = MaxSectionWords + 1
  /\ secReq.code = 400
  /\ \E k \in Ids : task[k].pc = "find" /\ store[task[k].id].exists

\* the provider request of task k is sent in this step
ProviderStarts(k) == task[k].pc = "find" /\ task'[k].pc = "call"

\* a post-processing call of task k settles in this step
PostProcessing(k) == task[k].pc \in {"seo", "images"} /\ task'[k] # task[k]

\* generateImages of task k has written the images in this step
ImagesDone(k) == task[k].pc = "images" /\ task'[k].pc = "done"

\* C23: within one generation the outline request of the wizard has
\* settled before the provider call for the content starts; the content is
\* saved as 'completed' before any post-processing call, and no
\* post-processing has written the record before that save; the SEO step,
\* when requested, has written the record before the images step does.
C23_StepsOrdered ==
  [][ \A k \in Ids :
        /\ ProviderStarts(k)
             => /\ wizard.pc \notin {"idle", "outline"}
                /\ store[task[k].id].status = "generating"
        /\ SaveSettles(k)
             => /\ ~store[task[k].id].seo
                /\ ~store[task[k].id].images
        /\ PostProcessing(k)
             => /\ task[k].saved
                /\ store[task[k].id].contentSet
                /\ store[task[k].id].status = "completed"
        /\ (ImagesDone(k) /\ task[k].seoOptimize)
             => store[task[k].id].seo ]_vars

\* a generation started by the wizard ended with SEO data and images, and
\* the wizard saw it completed
C23_Witness ==
  /\ wizard.pc = "done" /\ wizard.isComplete
  /\ \E k \in Ids :
       /\ task[k].pc = "done" /\ task[k].id = wizard.contentId
       /\ task[k].seoOptimize /\ task[k].includeImages
       /\ store[task[k].id].seo /\ store[task[k].id].images
       /\ store[task[k].id].status = "completed"

\* the wizard handles the answer to a status request in this step
PollAnswered == wizard.pc = "poll" /\ wizard'.pc # "poll"

\* the wizard gave up after its last poll
GaveUp == wizard.pc = "failed" /\ wizard.error = "timeout"

\* C25: the wizard polls at most 30 times, each poll after a wait; it
\* stops at the first poll that returns 'completed'; when the 30th poll
\* does not, it reports the timeout; and a record that is 'completed'
\* after the wizard gave up stays 'completed' for later polls.
C25_PollingBounded ==
  [][ /\ PollAnswered
           => /\ wizard.attempts < 30
              /\ wizard'.attempts = wizard.attempts + 1
              /\ ~wizard.isComplete
              /\ (wizard'.last.ok /\ wizard'.last.status = "completed")
                   => wizard'.pc = "done" /\ wizard'.isComplete
              /\ (wizard'.attempts = 30 /\ wizard'.pc # "done")
                   => wizard'.pc = "failed" /\ wizard'.error = "timeout"
              /\ (wizard'.attempts < 30 /\ wizard'.pc # "done")
                   => wizard'.pc = "wait"
      /\ (GaveUp /\ store[wizard.contentId].status = "completed")
           => store'[wizard.contentId].status = "completed" ]_vars

\* C26: when a poll returns 'draft' with an error, the wizard stops
\* polling at that poll and shows that error, not the timeout message.
C26_FailureStopsPolling ==
  [][ (PollAnswered /\ wizard'.last.ok
         /\ wizard'.last.status = "draft" /\ wizard'.last.error # "")
        => /\ wizard'.pc = "failed"
           /\ wizard'.error = "generation"
           /\ ~wizard'.isGenerating ]_vars

\* the save of the publish route settles in this step
PublishSettles == req.op = "publish" /\ req'.op = "none"

\* C24: a record becomes 'published' only by the publish route and only
\* from 'completed'; a published record is not taken out of 'published' by
\* a step of a background task.
C24_PublishedOnlyFromCompleted ==
  [][ \A id \in Ids :
        /\ (store'[id].status = "published" /\ store[id].status # "published")
             => /\ PublishSettles /\ req.id = id
                /\ store[id].status = "completed"
        /\ (store[id].status = "published" /\ store'[id].status # "published")
             => \A k \in Ids : task'[k] = task[k] ]_vars

\* every background task of account u has ended
AllEnded(u) == \A k \in Ids : task[k].user = u => task[k].pc = "done"

\* the ended tasks of account u whose record is 'completed'
EndedCompleted(u) ==
  { k \in Ids : /\ task[k].user = u /\ task[k].pc = "done"
                /\ store[task[k].id].status = "completed" }

\* C27: when the generations of an account have ended, its usage counters
\* count the records that ended as 'completed' and their words; a record
\* that ended as 'draft' has added nothing to usage.totalPosts,
\* usage.totalWords or subscription.wordsUsed.
C27_UsageOnlyForCompleted ==
  \A u \in Users : AllEnded(u)
     => /\ usage[u].totalPosts = Cardinality(EndedCompleted(u))
        /\ usage[u].totalWords = SumWords(EndedCompleted(u))
        /\ usage[u].wordsUsed = SumWords(EndedCompleted(u))

\* a request of a route that takes a record id is answered in this step
RouteAnswered ==
  resp' # resp /\ resp'.op \in {"images", "seo", "status", "put"}

\* C28: a generate-images, optimize-seo, status or update request of one
\* account changes no field of a record of another account, and a status
\* answer shows only a record of the caller.
C28_OnlyOwnerPostProcesses ==
  [][ RouteAnswered
        => /\ \A id \in Ids :
                (store[id].exists /\ store[id].user # resp'.user)
                   => store'[id] = store[id]
           /\ (resp'.op = "status" /\ resp'.code = 200)
                => store[resp'.id].user = resp'.user ]_vars

\* the sections of an outline that come before section id and have content
EarlierWithContent(outline, id) ==
  { outline[j].id : j \in { n \in 1..Len(outline) :
        /\ outline[n].order < SectionOf(outline, id).order
        /\ outline[n].content # "" } }

\* C29: when the batch sends the request for a section, the request
\* carries as previous sections every section that comes before it in the
\* outline and has content at that time, those generated earlier in the
\* same batch included.
C29_BatchContextIsCurrent ==
  [][ \A id \in 0..(MaxSections - 1) :
        (BatchIssues(id) /\ id \in SectionIdsOf(page'.outline))
          => gen'.batch.snap[gen'.batch.i].prev
               = EarlierWithContent(page'.outline, id) ]_vars

\* the content of every section, by position
Contents(outline) == [j \in 1..Len(outline) |-> outline[j].content]

\* the request of the batch settles in this step
BatchReturns ==
  /\ gen.batch.pc = "await"
  /\ gen'.batch.pc # "await" \/ gen'.batch.i # gen.batch.i

\* the request of the button of section id settles in this step
CallReturns(id) == id \in gen.calls /\ id \notin gen'.calls

\* the request that settles in this step was sent for section id
Returned(id) ==
  \/ BatchReturns /\ gen.batch.snap[gen.batch.i].id = id
  \/ CallReturns(id)

\* C30: the content a section request returns is stored in no section but
\* the one it was sent for; and when the outline has just been replaced by
\* a research run while the request was in flight, its result changes no
\* section of the new outline.
C30_LateResultNotStored ==
  [][ \A id \in 0..(MaxSections - 1) : Returned(id)
        => /\ \A j \in 1..Len(page.outline) :
                page.outline[j].id # id
                  => page'.outline[j].content = page.outline[j].content
           /\ trail.op = "replaced"
                => Contents(page'.outline) = Contents(page.outline) ]_vars

====
